---- MODULE Spec2Model ----
(***************************************************************************)
(* Model of the double-buffered waving-flag background of src/main.cpp     *)
(* (class flags_bg).  Tile memory is modelled row by row: one row of an    *)
(* 8bpp tile is 8 bytes (one uint64_t), a bn::tile (4bpp) is 4 such rows   *)
(* and an 8bpp tile is 2 bn::tile = 8 rows.  Tile memory is a sequence:    *)
(* the row at address r (in rows from tiles_base_ptr) is element r + 1.    *)
(***************************************************************************)
EXTENDS Integers, Sequences, FiniteSets, TLC

----------------------------------------------------------------------------
(* namespace data *)

flag_width_pixels == 192
flag_height_pixels == 128
flag_width_tiles == flag_width_pixels \div 8
flag_height_tiles == flag_height_pixels \div 8
flag_offset_x == (32 - flag_width_tiles) \div 2
flag_offset_y == (32 - flag_height_tiles) \div 2
flag_tiles_needed == flag_width_tiles * (flag_height_tiles + 2)
wave_vertical_amplitude == 4
wave_horizontal_period == 128
wave_horizontal_multiplier == 2048 \div wave_horizontal_period

----------------------------------------------------------------------------
(* Bounds of the model *)

\* update() calls explored in the interleaved specification
MaxFrame == 130
\* update() calls explored in the create-then-update run
MaxRun == 256
\* the displacement function is applied to x and t in -MaxArg .. MaxArg
MaxArg == 70

----------------------------------------------------------------------------
(* Memory geometry *)

\* sizeof(bn::tile) / sizeof(uint64_t): 8-byte rows in one 4bpp tile unit
TileRows == 4
\* bn::tile units reserved by regular_bg_tiles_ptr::allocate
AllocatedTiles == 2 * (2 * flag_tiles_needed + 1)
AllocatedRows == TileRows * AllocatedTiles
\* video memory that follows the reserved region (not owned by flags_bg)
GuardRows == 8
MemoryRows == AllocatedRows + GuardRows

\* the two compiled-in image assets
br_flag == 1
us_flag == 2
Images == {br_flag, us_flag}

VARIABLES
    created,        \* FALSE before flags_bg::create has run
    tiles,          \* tile memory, one value per 8-byte row (sequence)
    vram,           \* the 32x32 background map, one tile index per cell
                    \* (sequence: cell c is element c + 1)
    _bg_item,       \* the active image reference
    _current_frame, \* the frame counter
    last_call,      \* the member function that ran last
    prev_call,      \* the member function that ran before it
    update_calls,   \* number of update() calls made so far
    written,        \* row ranges <<first, last>> stored to by the last call
    probe           \* arguments and results of _displacement applied on its own

vars == <<created, tiles, vram, _bg_item, _current_frame, last_call, prev_call,
          update_calls, written, probe>>

----------------------------------------------------------------------------
(* bn::lut_sin and bn::fixed, as used by flags_bg::_displacement *)

\* bn::lut_sin at the angles 0, 16, .., 512 of the 2048-unit circle, as
\* bn::fixed data (12 fractional bits): the first quarter of the sine wave
sin_lut_quarter ==
    << 0, 201, 401, 601, 799, 995, 1189, 1380, 1567, 1751, 1931,
       2106, 2276, 2440, 2598, 2751, 2896, 3035, 3166, 3290, 3406,
       3513, 3612, 3703, 3784, 3857, 3920, 3973, 4017, 4052, 4076,
       4091, 4096 >>

\* bn::lut_sin(lut_angle) for lut_angle in [0, 2047]; the multiplier 16
\* makes every angle of this program a multiple of 16
lut_sin(lut_angle) ==
    LET q == lut_angle \div 16
    IN  IF q <= 32 THEN sin_lut_quarter[q + 1]
        ELSE IF q <= 64 THEN sin_lut_quarter[64 - q + 1]
        ELSE IF q <= 96 THEN 0 - sin_lut_quarter[q - 64 + 1]
        ELSE 0 - sin_lut_quarter[128 - q + 1]

\* round_integer adding one whole instead of one half
round_integer_whole(fixed_data) == (fixed_data + 4096) \div 4096

\* bn::fixed::round_integer(): add one half and shift right by 12
round_integer(fixed_data) == (fixed_data + 2048) \div 4096

\* a & 2047 on a two's complement int: the low 11 bits, which is the
\* non-negative residue of a modulo 2048 also when a is negative
BitAnd2047(a) == a % 2048

\* _displacement with the parentheses around x - t left out
_displacement_noparen(x, t) ==
    LET a == wave_horizontal_multiplier * x - t
    IN  round_integer(wave_vertical_amplitude * lut_sin(BitAnd2047(a)))

\* flags_bg::_displacement
_displacement(x, t) ==
    LET a == wave_horizontal_multiplier * (x - t)
    IN  round_integer(wave_vertical_amplitude * lut_sin(BitAnd2047(a)))

----------------------------------------------------------------------------
(* Image assets and arm::copy_vertical_tile_strip_8bpp *)

\* an image asset: a row-major 32x32 map of tile indices and the 8bpp tile
\* data it indexes.  Every map cell has a tile of its own and every tile
\* row a content of its own, so that any misplaced row is visible.
ImageMapCell(img, cell) == cell
ImageTileRow(img, tile, k) == img * 16384 + 8 * tile + k + 1

\* content of a blank (zero) row
Blank == 0

\* the 8 rows of every 8bpp tile of every image asset
ImageTiles ==
    [img \in Images |->
        [tile \in 0 .. 1023 |-> [k \in 1 .. 8 |-> ImageTileRow(img, tile, k - 1)]]]

RECURSIVE GatherTiles(_, _, _, _)
\* the tiles named by the map cells map_index + 32 * i, i < num_tiles, one
\* after the other
GatherTiles(img, map_index, i, num_tiles) ==
    IF i >= num_tiles THEN << >>
    ELSE ImageTiles[img][ImageMapCell(img, map_index + 32 * i)]
            \o GatherTiles(img, map_index, i + 1, num_tiles)

\* copies num_tiles 8bpp tiles, the ones the map cells map_index,
\* map_index + 32, .. name, to the contiguous rows starting at dest
copy_vertical_tile_strip_8bpp(m, dest, img, map_index, num_tiles) ==
    SubSeq(m, 1, dest)
    \o GatherTiles(img, map_index, 0, num_tiles)
    \o SubSeq(m, dest + 8 * num_tiles + 1, Len(m))

----------------------------------------------------------------------------
(* flags_bg::_transfer *)

\* first row of the slot's region: tiles_base_ptr + 2 * (tiles_needed * slot + 1)
SlotBase(slot) == TileRows * (2 * (flag_tiles_needed * slot + 1))

\* line_ptr taken in the slot the next update() stores to
TransferLine_inactive(frame, x) ==
    SlotBase(1 - (frame % 2)) + TileRows * (2 * (flag_height_tiles + 2) * x + 2)
        + _displacement(8 * x, frame)

\* line_ptr without the padding tile skipped by tile_ptr + 2
TransferLine_nopad(frame, x) ==
    SlotBase(frame % 2) + TileRows * (2 * (flag_height_tiles + 2) * x)
        + _displacement(8 * x, frame)

\* line_ptr of column x: (tile_ptr + 2) seen as uint64_t*, plus disp
TransferLine(frame, x) ==
    SlotBase(frame % 2) + TileRows * (2 * (flag_height_tiles + 2) * x + 2)
        + _displacement(8 * x, frame)

RECURSIVE TransferColumns(_, _, _, _)
\* the loop of _transfer, columns x .. flag_width_tiles - 1
TransferColumns(m, img, frame, x) ==
    IF x >= flag_width_tiles THEN m
    ELSE TransferColumns(
            copy_vertical_tile_strip_8bpp(
                m, TransferLine(frame, x), img,
                32 * flag_offset_y + flag_offset_x + x, flag_height_tiles),
            img, frame, x + 1)

_transfer(m, img, frame) == TransferColumns(m, img, frame, 0)

\* the rows _transfer stores to
TransferWritten(frame) ==
    { <<TransferLine(frame, x), TransferLine(frame, x) + 8 * flag_height_tiles - 1>> :
        x \in 0 .. (flag_width_tiles - 1) }

----------------------------------------------------------------------------
(* flags_bg::update *)

\* tiles_to_copy without the two padding tiles of the strip
tiles_to_copy_nopad == flag_height_tiles

tiles_to_copy == flag_height_tiles + 2
\* 2 * sizeof(bn::tile) * tiles_to_copy / sizeof(uint32_t)
words_to_copy == (2 * 32 * tiles_to_copy) \div 4
\* the copy length counted in 8bpp tiles but passed as bn::tile units
real_tiles_to_copy_8bpp == (words_to_copy * 4) \div 64

\* (words_to_copy * sizeof(uint32_t)) / sizeof(bn::tile)
real_tiles_to_copy == (words_to_copy * 4) \div 32

\* d_disp computed from the tile column instead of the pixel column
d_disp_unscaled(frame, x) == _displacement(x, frame + 1) - _displacement(x, frame)

\* d_disp taken over the previous tick instead of this one
d_disp_previous(frame, x) == _displacement(8 * x, frame) - _displacement(8 * x, frame - 1)

\* d_disp of column x: the change of its displacement over this tick
d_disp(frame, x) == _displacement(8 * x, frame + 1) - _displacement(8 * x, frame)

\* col_src_ptr taken in the destination slot
ColSrc_dst(frame, x) ==
    SlotBase(1 - (frame % 2)) + TileRows * (2 * (flag_height_tiles + 2) * x)

\* col_src_ptr and line_dst_ptr of column x, in rows
ColSrc(frame, x) == SlotBase(frame % 2) + TileRows * (2 * (flag_height_tiles + 2) * x)
LineDst(frame, x) ==
    SlotBase(1 - (frame % 2)) + TileRows * (2 * (flag_height_tiles + 2) * x)
        + d_disp(frame, x)

\* bn::memory::copy of n bn::tile units
memory_copy(m, src, n, dst) ==
    SubSeq(m, 1, dst)
    \o SubSeq(m, src + 1, src + TileRows * n)
    \o SubSeq(m, dst + TileRows * n + 1, Len(m))

RECURSIVE UpdateColumns(_, _, _)
\* the loop of update, columns x .. flag_width_tiles - 1
UpdateColumns(m, frame, x) ==
    IF x >= flag_width_tiles THEN m
    ELSE UpdateColumns(
            memory_copy(m, ColSrc(frame, x), real_tiles_to_copy, LineDst(frame, x)),
            frame, x + 1)

\* the rows update stores to
UpdateWritten(frame) ==
    { <<LineDst(frame, x), LineDst(frame, x) + TileRows * real_tiles_to_copy - 1>> :
        x \in 0 .. (flag_width_tiles - 1) }

----------------------------------------------------------------------------
(* flags_bg::create: the background map *)

\* the fill loop with tile_y = flag_offset_y + y, the upper padding row
\* left out of the offset
CellWriters_nomargin(c) ==
    { p \in (0 .. (flag_width_tiles - 1)) \X (0 .. (flag_height_tiles + 1)) :
        32 * (flag_offset_y + p[2]) + (flag_offset_x + p[1]) = c }

\* the (x, y) iterations of the fill loop that store to map cell c
CellWriters(c) ==
    { p \in (0 .. (flag_width_tiles - 1)) \X (0 .. (flag_height_tiles + 1)) :
        32 * (flag_offset_y + p[2] - 1) + (flag_offset_x + p[1]) = c }

\* the map after bn::fill and the fill loop: the last store to a cell wins
CreatedMap ==
    [n \in 1 .. 1024 |->
        IF CellWriters(n - 1) = {} THEN 0
        ELSE LET last == CHOOSE p \in CellWriters(n - 1) :
                            \A q \in CellWriters(n - 1) :
                                (flag_height_tiles + 2) * q[1] + q[2]
                                    <= (flag_height_tiles + 2) * p[1] + p[2]
             IN  (flag_height_tiles + 2) * last[1] + last[2] + 1]

----------------------------------------------------------------------------
(* State machine *)

\* tile memory is not initialised by create: it is either zero or holds
\* stale data (here a different value in every row)
ZeroedMemory == [i \in 1 .. MemoryRows |-> Blank]
StaleMemory == [i \in 1 .. MemoryRows |-> 0 - i]

\* ticks after which the lookup angle has made one full turn
FullCycleTicks == 2048 \div wave_horizontal_multiplier

NoProbe == [x |-> 0, t |-> 0, out |-> << >>]

\* the lookup angle taken as the remainder of a truncating division
LookupAngle_truncating(x, t) ==
    LET a == wave_horizontal_multiplier * (x - t)
    IN  IF a >= 0 THEN a % 2048 ELSE 0 - ((0 - a) % 2048)

\* the lookup angle of _displacement(x, t)
LookupAngle(x, t) == BitAnd2047(wave_horizontal_multiplier * (x - t))

Init ==
    /\ created = FALSE
    /\ tiles \in {ZeroedMemory, StaleMemory}
    /\ vram = [n \in 1 .. 1024 |-> 0]
    /\ _bg_item = br_flag
    /\ _current_frame = 0
    /\ last_call = "none"
    /\ prev_call = "none"
    /\ update_calls = 0
    /\ written = {}
    /\ probe = NoProbe

\* flags_bg::create(bg_item) and the constructor it runs
Create(img) ==
    /\ created = FALSE
    /\ created' = TRUE
    /\ vram' = CreatedMap
    /\ _bg_item' = img
    /\ _current_frame' = 0
    /\ tiles' = _transfer(tiles, img, 0)
    /\ written' = TransferWritten(0)
    /\ last_call' = "create"
    /\ prev_call' = last_call
    /\ UNCHANGED <<update_calls, probe>>

\* set_bg_item that also flips to the slot it loaded
set_bg_item_flipping(img) ==
    /\ created
    /\ _bg_item' = img
    /\ tiles' = _transfer(tiles, img, _current_frame)
    /\ written' = TransferWritten(_current_frame)
    /\ last_call' = "set_bg_item"
    /\ prev_call' = last_call
    /\ _current_frame' = _current_frame + 1
    /\ UNCHANGED <<created, vram, update_calls, probe>>

\* flags_bg::set_bg_item(bg_item)
set_bg_item(img) ==
    /\ created
    /\ _bg_item' = img
    /\ tiles' = _transfer(tiles, img, _current_frame)
    /\ written' = TransferWritten(_current_frame)
    /\ last_call' = "set_bg_item"
    /\ prev_call' = last_call
    /\ UNCHANGED <<created, vram, _current_frame, update_calls, probe>>

\* a frame counter that keeps only its parity
IncrementFrame_parity(frame) == (frame + 1) % 2

\* ++_current_frame
IncrementFrame(frame) == frame + 1

\* flags_bg::update(), explored up to a bound on the frame counter
UpdateUpTo(bound) ==
    /\ created
    /\ _current_frame < bound
    /\ tiles' = UpdateColumns(tiles, _current_frame, 0)
    /\ written' = UpdateWritten(_current_frame)
    /\ _current_frame' = IncrementFrame(_current_frame)
    /\ last_call' = "update"
    /\ prev_call' = last_call
    /\ update_calls' = update_calls + 1
    /\ UNCHANGED <<created, vram, _bg_item, probe>>

update == UpdateUpTo(MaxFrame)

CreateAny == \E img \in Images : Create(img)
SetBgItemAny == \E img \in Images : set_bg_item(img)

Next == CreateAny \/ SetBgItemAny \/ update

Spec == Init /\ [][Next]_vars

\* the same program started on zeroed tile memory
InitZeroed == Init /\ tiles = ZeroedMemory
SpecZeroed == InitZeroed /\ [][Next]_vars

\* main() without key presses: create(br_flag), then update() every tick
CreateBr == Create(br_flag)
run_update == UpdateUpTo(MaxRun)
NextRun == CreateBr \/ run_update
SpecRun == Init /\ [][NextRun]_vars

\* _displacement applied on its own to bounded arguments
InitDisp ==
    /\ created = FALSE
    /\ tiles = ZeroedMemory
    /\ vram = [n \in 1 .. 1024 |-> 0]
    /\ _bg_item = br_flag
    /\ _current_frame = 0
    /\ last_call = "none"
    /\ prev_call = "none"
    /\ update_calls = 0
    /\ written = {}
    /\ probe \in [x : (0 - MaxArg) .. MaxArg, t : (0 - MaxArg) .. MaxArg, out : {<< >>}]

ApplyDisplacement ==
    /\ probe.out = << >>
    /\ probe' = [probe EXCEPT !.out =
            [a |-> LookupAngle(probe.x, probe.t),
             d |-> _displacement(probe.x, probe.t),
             a_cycle |-> LookupAngle(probe.x, probe.t + FullCycleTicks),
             d_cycle |-> _displacement(probe.x, probe.t + FullCycleTicks)]]
    /\ UNCHANGED <<created, tiles, vram, _bg_item, _current_frame, last_call,
                   prev_call, update_calls, written>>

SpecDisp == InitDisp /\ [][ApplyDisplacement]_vars

TypeOK ==
    /\ created \in BOOLEAN
    /\ _bg_item \in Images
    /\ _current_frame \in Nat
    /\ Len(tiles) = MemoryRows
    /\ Len(vram) = 1024

----------------------------------------------------------------------------
(* Views of tile memory used by the properties *)

\* rows in one column strip and in one slot
StripRows == 8 * (flag_height_tiles + 2)
SlotRows == flag_width_tiles * StripRows

\* the slot selected by the parity of the frame counter
ActiveSlot == _current_frame % 2

\* the content of a slot and of one column strip of a slot
SlotContent(m, slot) == SubSeq(m, SlotBase(slot) + 1, SlotBase(slot) + SlotRows)
StripStart(slot, x) == SlotBase(slot) + StripRows * x
StripContent(m, slot, x) ==
    SubSeq(m, StripStart(slot, x) + 1, StripStart(slot, x) + StripRows)

\* steps of update() and of the two callers of _transfer
UpdateStep == update_calls' = update_calls + 1
SetStep == last_call' = "set_bg_item" /\ update_calls' = update_calls
CreateStep == created = FALSE /\ created' = TRUE

----------------------------------------------------------------------------
(* C1 *)

\* C1: update() leaves every row of every column strip of the active slot,
\* slot (t & 1), with the value it had before the call.
C1_ActiveSlotUnchangedByUpdate ==
    [][UpdateStep => SlotContent(tiles', ActiveSlot) = SlotContent(tiles, ActiveSlot)]_vars

----------------------------------------------------------------------------
(* C2 *)

\* the cell of background map v at index c
Cell(v, c) == v[c + 1]

\* the slots whose 8bpp tiles the non-blank map cells reference: what the
\* display reads
DisplayedSlots ==
    { slot \in {0, 1} :
        \A c \in 0 .. 1023 :
            Cell(vram, c) # 0 =>
                /\ SlotBase(slot) <= 8 * Cell(vram, c)
                /\ 8 * Cell(vram, c) < SlotBase(slot) + SlotRows }

\* C2: in every state after create(), the slot the map cells reference is
\* the active slot, slot (current_frame & 1).
C2_DisplayedSlotIsActiveSlot ==
    created => DisplayedSlots = {ActiveSlot}

----------------------------------------------------------------------------
(* C3 *)

Max(a, b) == IF a >= b THEN a ELSE b
Min(a, b) == IF a <= b THEN a ELSE b

\* rows r .. s (0-based, inclusive) of a strip content
StripPart(strip, r, s) == SubSeq(strip, r + 1, s + 1)

\* dst[x][r + d] = src[x][r] for every row r with r and r + d in the strip
ShiftedCopy(dst_strip, src_strip, d) ==
    StripPart(dst_strip, Max(0, d), Min(StripRows - 1, StripRows - 1 + d))
        = StripPart(src_strip, Max(0, 0 - d), Min(StripRows - 1, StripRows - 1 - d))

\* C3: after update() at frame t has processed all 24 columns, column x of
\* the destination slot equals column x of the source slot shifted down by
\* d = displacement(8x, t+1) - displacement(8x, t) rows.
C3_DeltaConsistency ==
    [][UpdateStep =>
        \A x \in 0 .. (flag_width_tiles - 1) :
            ShiftedCopy(StripContent(tiles', 1 - ActiveSlot, x),
                        StripContent(tiles, ActiveSlot, x),
                        d_disp(_current_frame, x))]_vars

----------------------------------------------------------------------------
(* C4 *)

\* the 128 pixel rows of column x of an image asset, top to bottom
ImageColumns ==
    [img \in Images |->
        [x \in 0 .. (flag_width_tiles - 1) |->
            [k \in 1 .. flag_height_pixels |->
                ImageTileRow(img,
                    ImageMapCell(img, 32 * (flag_offset_y + (k - 1) \div 8)
                                        + flag_offset_x + x),
                    (k - 1) % 8)]]]
ImageColumn(img, x) == ImageColumns[img][x]

\* column x of the slot holds the image rows of img from strip row off on
HoldsColumnAt(m, slot, x, img, off) ==
    SubSeq(m, StripStart(slot, x) + off + 1, StripStart(slot, x) + off + flag_height_pixels)
        = ImageColumn(img, x)

\* C4: in the run create(br_flag), update() x 256, at every tick t and for
\* every column x the image rows of the active slot start within one row of
\* strip row 8 + displacement(8x, t).
C4_EndToEndDisplacement ==
    created =>
        \A x \in 0 .. (flag_width_tiles - 1) :
            \E e \in {0 - 1, 0, 1} :
                HoldsColumnAt(tiles, ActiveSlot, x, br_flag,
                              8 + _displacement(8 * x, _current_frame) + e)

\* the run has made its 256 update() calls and some column is displaced
C4_Witness ==
    /\ update_calls = 256
    /\ last_call = "update"
    /\ \E x \in 0 .. (flag_width_tiles - 1) :
        /\ _displacement(8 * x, _current_frame) # 0
        /\ HoldsColumnAt(tiles, ActiveSlot, x, br_flag,
                         8 + _displacement(8 * x, _current_frame))

----------------------------------------------------------------------------
(* C5 *)

\* C5: the frame counter is 0 after create(), every update() call adds
\* exactly 1 to it and swaps the source and destination slots, it never
\* decreases, and it equals the number of update() calls made.
C5_FrameCounterCountsUpdates ==
    [][/\ CreateStep => _current_frame' = 0
       /\ UpdateStep => /\ _current_frame' = _current_frame + 1
                        /\ ActiveSlot' = 1 - ActiveSlot
       /\ _current_frame' >= _current_frame
       /\ _current_frame' = update_calls']_vars

\* 256 update() calls have been made and the counter reads 256
C5_Witness ==
    /\ last_call = "update"
    /\ update_calls = 256
    /\ _current_frame = 256

----------------------------------------------------------------------------
(* C6 *)

\* C6: set_bg_item leaves the frame counter and its parity unchanged, and in
\* any interleaving of set_bg_item and update() the counter equals the
\* number of update() calls.
C6_SetBgItemKeepsFrameCounter ==
    [][/\ SetStep => /\ _current_frame' = _current_frame
                     /\ ActiveSlot' = ActiveSlot
       /\ _current_frame' = update_calls']_vars

\* an image swap made after some update() calls, at an odd frame
C6_Witness ==
    /\ last_call = "set_bg_item"
    /\ _bg_item = us_flag
    /\ update_calls = 3
    /\ _current_frame = 3

----------------------------------------------------------------------------
(* C7 *)

\* every stored row range lies inside the slot
WrittenInside(ranges, slot) ==
    \A w \in ranges :
        /\ SlotBase(slot) <= w[1]
        /\ w[2] < SlotBase(slot) + SlotRows

SlotHolds(m, slot, img) ==
    \A x \in 0 .. (flag_width_tiles - 1) :
        \E off \in 0 .. (StripRows - flag_height_pixels) :
            HoldsColumnAt(m, slot, x, img, off)

----------------------------------------------------------------------------
(* C8 *)

\* C8 as stated: in every state after create(), also right after create(),
\* except from a set_bg_item call until the next update() has completed,
\* both slots hold the 128 image rows of every column of the active image.
C8_BothSlotsHoldActiveImage ==
    (created /\ last_call # "set_bg_item") =>
        /\ SlotHolds(tiles, 0, _bg_item)
        /\ SlotHolds(tiles, 1, _bg_item)

\* C8 amended: the same in every state in which the last call was update(),
\* that is from the first update() on and outside an image swap.
C8_BothSlotsHoldActiveImageAfterUpdate ==
    last_call = "update" =>
        /\ SlotHolds(tiles, 0, _bg_item)
        /\ SlotHolds(tiles, 1, _bg_item)

\* the update() that completes a swap: both slots hold the new image, at
\* different rows in some column
C8_Witness ==
    /\ last_call = "update"
    /\ _bg_item = us_flag
    /\ SlotHolds(tiles, 0, us_flag)
    /\ SlotHolds(tiles, 1, us_flag)
    /\ \E x \in 0 .. (flag_width_tiles - 1) :
        StripContent(tiles, 0, x) # StripContent(tiles, 1, x)

----------------------------------------------------------------------------
(* C9 *)

\* a step of _transfer, run by create() or by set_bg_item
TransferStep == CreateStep \/ SetStep

\* first row of the image in column x's strip of slot (t & 1) per the
\* closed form: strip row 8 + displacement(8x, t)
LoadStart(t, x) == StripStart(t % 2, x) + 8 + _displacement(8 * x, t)

\* rows a .. b (addresses, inclusive) are the same in m and n
SameRows(m, n, a, b) == SubSeq(m, a + 1, b + 1) = SubSeq(n, a + 1, b + 1)

\* C9: load at frame t stores, for every column x, exactly the 128 rows of
\* image column x, top to bottom, at rows [8 + d, 8 + d + 128) of column x's
\* strip of slot (t & 1), d = displacement(8x, t), and no other row of tile
\* memory changes.
C9_LoadWritesExactlyImageRows ==
    [][TransferStep =>
        LET t == _current_frame'
            last == flag_width_tiles - 1
        IN  /\ written' = { <<LoadStart(t, x), LoadStart(t, x) + flag_height_pixels - 1>> :
                              x \in 0 .. last }
            /\ \A x \in 0 .. last :
                /\ LoadStart(t, x) >= StripStart(t % 2, x)
                /\ LoadStart(t, x) + flag_height_pixels <= StripStart(t % 2, x) + StripRows
                /\ HoldsColumnAt(tiles', t % 2, x, _bg_item',
                                 8 + _displacement(8 * x, t))
            /\ SameRows(tiles', tiles, 0, LoadStart(t, 0) - 1)
            /\ \A x \in 0 .. (last - 1) :
                SameRows(tiles', tiles, LoadStart(t, x) + flag_height_pixels,
                         LoadStart(t, x + 1) - 1)
            /\ SameRows(tiles', tiles, LoadStart(t, last) + flag_height_pixels,
                        MemoryRows - 1)]_vars

\* a load at an odd frame in which some column is displaced
C9_Witness ==
    /\ last_call = "set_bg_item"
    /\ _current_frame % 2 = 1
    /\ \E x \in 0 .. (flag_width_tiles - 1) :
        /\ _displacement(8 * x, _current_frame) < 0
        /\ HoldsColumnAt(tiles, 1, x, _bg_item,
                         8 + _displacement(8 * x, _current_frame))

----------------------------------------------------------------------------
(* C10 *)

\* C10: displacement(x, t) = displacement(x, t + 128) for all x and t, also
\* when x - t is negative; 128 = 2048 / multiplier with multiplier 16, and
\* the lookup angle is the same at t and t + 128.
C10_DisplacementPeriodicity ==
    /\ wave_horizontal_multiplier = 16
    /\ FullCycleTicks = 128
    /\ probe.out # << >> =>
        /\ probe.out.d = probe.out.d_cycle
        /\ probe.out.a = probe.out.a_cycle
        /\ probe.out.d = _displacement(probe.x, probe.t + 128)

\* the function has been applied with x - t negative and a non-zero result
C10_Witness ==
    /\ probe.out # << >>
    /\ probe.x - probe.t < 0
    /\ probe.out.d = 0 - 3
    /\ probe.out.d_cycle = 0 - 3

----------------------------------------------------------------------------
(* C11 *)

\* C11: |displacement(x, t)| <= 4, the vertical amplitude, for all x and t
\* (the sine values lie in [-1, 1]); the bound is smaller than the 8 rows of
\* one padding tile.
C11_DisplacementBounded ==
    /\ wave_vertical_amplitude = 4
    /\ wave_vertical_amplitude < 8
    /\ \A k \in 1 .. Len(sin_lut_quarter) :
        0 - 4096 <= sin_lut_quarter[k] /\ sin_lut_quarter[k] <= 4096
    /\ probe.out # << >> =>
        /\ 0 - wave_vertical_amplitude <= probe.out.d
        /\ probe.out.d <= wave_vertical_amplitude

\* the function has been applied where the bound is attained from below
C11_Witness ==
    /\ probe.out # << >>
    /\ probe.x - probe.t > 0
    /\ probe.out.d = 0 - 4

----------------------------------------------------------------------------
(* C12 *)

\* the map of the claim: index 18x + y + 1 at map column 4 + x and map row
\* 7 + y for x in [0, 24) and y in [0, 18), index 0 in every other cell
ClaimedMap ==
    [n \in 1 .. 1024 |->
        LET col == (n - 1) % 32
            row == (n - 1) \div 32
        IN  IF 4 <= col /\ col < 4 + 24 /\ 7 <= row /\ row < 7 + 18
            THEN 18 * (col - 4) + (row - 7) + 1
            ELSE 0]

\* C12: after create() the 32x32 map holds index 18x + y + 1 at column
\* 4 + x, row 7 + y and 0 elsewhere; the written cells are inside the map,
\* every index 1..432 is in exactly one cell and the region is centered.
\* (the later calls leave the map as create() made it)
C12_MapLayout ==
    [][/\ CreateStep =>
            /\ vram' = ClaimedMap
            /\ \A p \in (0 .. (flag_width_tiles - 1)) \X (0 .. (flag_height_tiles + 1)) :
                /\ 0 <= flag_offset_x + p[1] /\ flag_offset_x + p[1] < 32
                /\ 0 <= flag_offset_y + p[2] - 1 /\ flag_offset_y + p[2] - 1 < 32
            /\ \A i \in 1 .. flag_tiles_needed :
                Cardinality({c \in 0 .. 1023 : Cell(vram', c) = i}) = 1
            /\ flag_offset_x = 32 - (flag_offset_x + flag_width_tiles)
            /\ flag_offset_y - 1 = 32 - (flag_offset_y - 1 + flag_height_tiles + 2)
       /\ created => vram' = vram]_vars

\* create() has run: the first and the last flag tile are in their cells
C12_Witness ==
    /\ last_call = "create"
    /\ Cell(vram, 32 * 7 + 4) = 1
    /\ Cell(vram, 32 * 24 + 27) = 432
    /\ Cell(vram, 32 * 6 + 4) = 0

----------------------------------------------------------------------------
(* C13 *)

\* C13: every row update() stores while processing column x lies in rows
\* [0, 144) of column x's own strip of the destination slot, whatever the
\* delta d of the column is.
C13_UpdateStaysInOwnStrip ==
    [][UpdateStep =>
        \A x \in 0 .. (flag_width_tiles - 1) :
            LET first == LineDst(_current_frame, x)
                last == LineDst(_current_frame, x) + TileRows * real_tiles_to_copy - 1
            IN  /\ <<first, last>> \in written'
                /\ StripStart(1 - ActiveSlot, x) <= first
                /\ last < StripStart(1 - ActiveSlot, x) + StripRows]_vars

----------------------------------------------------------------------------
(* C14 *)

\* C14: every row of tile memory that update() and load() read or store lies
\* inside the region reserved by allocate, rows [0, AllocatedRows), that is
\* offsets [0, 1730) in bn::tile units.
C14_AccessesInsideAllocation ==
    [][/\ AllocatedTiles = 1730
       /\ \A w \in written' : 0 <= w[1] /\ w[2] < AllocatedRows
       /\ UpdateStep =>
            \A x \in 0 .. (flag_width_tiles - 1) :
                /\ 0 <= ColSrc(_current_frame, x)
                /\ ColSrc(_current_frame, x) + TileRows * real_tiles_to_copy
                        <= AllocatedRows]_vars

----------------------------------------------------------------------------
(* C18 *)

\* C18: no create, set_bg_item or update() call stores to a row of 8bpp
\* tile 0, rows [0, 8) of tile memory.
C18_BlankTileNeverWritten ==
    [][\A w \in written' : w[2] < 0 \/ w[1] >= 2 * TileRows]_vars

----------------------------------------------------------------------------
(* C15 *)

\* C15: for all x and t, also with x - t < 0, the lookup index a lies in
\* [0, 2047] and differs from 16 * (x - t) by a multiple of 2048: it is the
\* non-negative residue, not the remainder of a truncating division.
C15_AngleWrapsIntoTable ==
    probe.out # << >> =>
        /\ 0 <= probe.out.a /\ probe.out.a <= 2047
        /\ \E k \in (0 - 2 - MaxArg \div 32) .. (2 + MaxArg \div 32) :
            16 * (probe.x - probe.t) = probe.out.a + 2048 * k

\* the function has been applied with x - t < 0 and the angle wrapped to a
\* positive index
C15_Witness ==
    /\ probe.out # << >>
    /\ probe.x - probe.t = 0 - 1
    /\ probe.out.a = 2032

----------------------------------------------------------------------------
(* C16 *)

\* C16: after create() and any interleaving of update() and set_bg_item,
\* for every column x slot (current_frame & 1) holds the 128 rows of column
\* x of the current image starting exactly at strip row
\* 8 + displacement(8x, current_frame).
C16_ExactPhaseTracking ==
    created =>
        \A x \in 0 .. (flag_width_tiles - 1) :
            HoldsColumnAt(tiles, ActiveSlot, x, _bg_item,
                          8 + _displacement(8 * x, _current_frame))

\* some ticks after an image swap, at a frame where a column is displaced
C16_Witness ==
    /\ last_call = "update"
    /\ prev_call = "update"
    /\ _bg_item = us_flag
    /\ _current_frame = 40
    /\ _displacement(0, _current_frame) = 0 - 4
    /\ HoldsColumnAt(tiles, ActiveSlot, 0, us_flag, 4)

----------------------------------------------------------------------------
(* C17 *)

\* the image a row content belongs to, 0 for blank and stale rows
RowImage(v) == IF v > 0 THEN v \div 16384 ELSE 0

\* no row of the slot belongs to an image other than img
OnlyRowsOf(m, slot, img) ==
    \A i \in (SlotBase(slot) + 1) .. (SlotBase(slot) + SlotRows) :
        RowImage(m[i]) \in {0, img}

\* C17: when update() runs right after set_bg_item, then after it both slots
\* hold the new image in every column and no row of either slot belongs to
\* the image that was replaced.
C17_SwapConverges ==
    [][(UpdateStep /\ last_call = "set_bg_item") =>
        /\ SlotHolds(tiles', 0, _bg_item)
        /\ SlotHolds(tiles', 1, _bg_item)
        /\ OnlyRowsOf(tiles', 0, _bg_item)
        /\ OnlyRowsOf(tiles', 1, _bg_item)]_vars

\* the update() after a swap from br_flag to us_flag has completed
C17_Witness ==
    /\ last_call = "update"
    /\ prev_call = "set_bg_item"
    /\ _bg_item = us_flag
    /\ _current_frame = 3
    /\ SlotHolds(tiles, 0, us_flag)
    /\ SlotHolds(tiles, 1, us_flag)

----------------------------------------------------------------------------
(* C19 *)

\* n blank rows
BlankRows(n) == [k \in 1 .. n |-> Blank]

\* the strips whose rows are blank except for the 128 rows of image column
\* x of one image, and the strip that is blank altogether
CleanStrips ==
    [x \in 0 .. (flag_width_tiles - 1) |->
        { BlankRows(StripRows) }
        \cup { BlankRows(off) \o ImageColumn(img, x)
                    \o BlankRows(StripRows - flag_height_pixels - off) :
               off \in 0 .. (StripRows - flag_height_pixels), img \in Images }]

\* C19: started on zeroed tile memory, in every state every row of every
\* column strip of both slots that is not one of the column's 128 image
\* rows is blank.
C19_PaddingStaysBlank ==
    \A slot \in {0, 1} :
        \A x \in 0 .. (flag_width_tiles - 1) :
            StripContent(tiles, slot, x) \in CleanStrips[x]

\* both slots are loaded, a column is displaced upwards and its padding
\* rows are blank
C19_Witness ==
    /\ last_call = "update"
    /\ _current_frame = 40
    /\ tiles[1] = Blank
    /\ HoldsColumnAt(tiles, 0, 0, _bg_item, 4)
    /\ SubSeq(StripContent(tiles, 0, 0), 1, 4) = BlankRows(4)
    /\ SubSeq(StripContent(tiles, 0, 0), 133, 144) = BlankRows(12)
    /\ StripContent(tiles, 1, 0) \in CleanStrips[0]
    /\ StripContent(tiles, 1, 0) # BlankRows(StripRows)

====
